---- MODULE Spec2Model ----
(***************************************************************************)
(* Threaded-comment subsystem (CommentService over the "comments"          *)
(* collection).  Every store round-trip of a handler (each awaited         *)
(* Mongoose call) is one atomic step; the synchronous code that follows an *)
(* await belongs to that step, and a handler's synchronous head belongs to *)
(* its first round-trip.  Requests run concurrently on the workers of      *)
(* Procs.  A worker record keeps only the locals the rest of its handler   *)
(* still reads.                                                            *)
(***************************************************************************)
EXTENDS Integers, Sequences, FiniteSets, TLC

\* ---------------------------------------------------------------- bounds
MaxComments == 3
\* requests served in one run
MaxCalls == 2

\* ------------------------------------------------------------ identities
Procs == {"w1", "w2"}
Users == {"u1", "u2"}
\* products present in the "products" collection
ProductStore == {"p1"}
\* a well-formed ObjectId that names no stored product
GhostProduct == "p9"
\* a string that is not a well-formed ObjectId
BadProduct == "zz"
ProductInputs == ProductStore \cup {GhostProduct, BadProduct}

\* parent_id default of the schema: null
NULL == 0
\* a comment id string that Types.ObjectId.isValid rejects
BadId == 0 - 1
CommentIds == 1..MaxComments
CommentIdInputs == CommentIds \cup {BadId}

\* contents are character sequences; " " is whitespace
CreateContents == {<<" ", "a">>, <<" ">>}
UpdateContents == {<<>>, <<"b", " ">>, <<" ">>}

VARIABLES comments, procs, ret, sent, ncalls

\* the category collection, the product collection as CategoryService sees
\* it, and the position of each worker's CategoryService call
VARIABLES categories, productDocs, cprocs

vars == <<comments, procs, ret, sent, ncalls, categories, productDocs, cprocs>>

\* a worker that runs no CategoryService call
CatIdle ==
  [pc |-> "idle", op |-> "none", id |-> 0, parent_id |-> 0,
   slug |-> "none", is_active |-> "absent", modifiedCount |-> 0]

\* CommentService does not touch the catalog
CatalogUntouched ==
  /\ categories = <<>> /\ productDocs = <<>>
  /\ cprocs = [p \in Procs |-> CatIdle]

\* ------------------------------------------------------- pure helpers
IsValidObjectId(id) == id # BadId

IsValidProductId(pid) == pid # BadProduct

RECURSIVE TrimLeft(_)
TrimLeft(s) ==
  IF s = <<>> THEN s
  ELSE IF Head(s) = " " THEN TrimLeft(Tail(s)) ELSE s

RECURSIVE TrimRight(_)
TrimRight(s) ==
  IF s = <<>> THEN s
  ELSE IF s[Len(s)] = " " THEN TrimRight(SubSeq(s, 1, Len(s) - 1)) ELSE s

\* schema option trim: true on content
Trim(s) == TrimRight(TrimLeft(s))

\* schema option required: true on content (an empty string is rejected)
ContentValid(s) == s # <<>>

RECURSIVE FilterOut(_, _)
\* replies.filter((id) => id.toString() !== commentId)
FilterOut(s, id) ==
  IF s = <<>> THEN <<>>
  ELSE IF Head(s) = id THEN FilterOut(Tail(s), id)
       ELSE <<Head(s)>> \o FilterOut(Tail(s), id)

\* NewComment with reply_count 1 on a top-level comment
NewCommentCounted(pid, uid, content, parent) ==
  [product_id |-> pid, user_id |-> uid, content |-> Trim(content),
   parent_id |-> parent, replies |-> <<>>,
   reply_count |-> IF parent = NULL THEN 1 ELSE 0,
   is_deleted |-> FALSE, v |-> 0]

\* document built by `new this.commentModel({...})` with the schema defaults
NewComment(pid, uid, content, parent) ==
  [product_id |-> pid, user_id |-> uid, content |-> Trim(content),
   parent_id |-> parent, replies |-> <<>>, reply_count |-> 0,
   is_deleted |-> FALSE, v |-> 0]

\* FindLive without the is_deleted filter
FindLiveNoFilter(id) == id \in DOMAIN comments

\* findOne({_id, is_deleted: false})
FindLive(id) == id \in DOMAIN comments /\ ~comments[id].is_deleted

\* findById(id)
Exists(id) == id \in DOMAIN comments

\* IsReply with the depth test dropped
IsReplyNever(c) == FALSE

\* (parentComment as CommentDocument).parent_id is truthy
IsReply(c) == c.parent_id # NULL

\* IsAuthor with the ownership test dropped
IsAuthorAlways(c, uid) == TRUE

\* comment.user_id.toString() !== userId
IsAuthor(c, uid) == c.user_id = uid

\* populate('product_id', ...) yields null when the product is not stored
ProductPopulated(pid) == pid \in ProductStore

\* ------------------------------------------------------ worker records
NoSnap == [replies |-> <<>>, reply_count |-> 0, v |-> 0]

\* limit = 10, the default page size of the listings
DefaultLimit == 10

\* no product filter / no product_id given
NoProduct == "none"

\* a listing's query: the handler and the fields its filter uses
NoQuery ==
  [kind |-> "none", product_id |-> NoProduct, parent_id |-> NULL,
   user_id |-> "u1", commentId |-> NULL, search |-> <<>>]

\* what a read answers: the page of comment ids, the comments populated as
\* parent summaries, the comments an aggregate counted, and the total;
\* nmatch is the number of comments that matched when the page was read
NoBody == [items |-> <<>>, parents |-> {}, counted |-> {}, nmatch |-> 0,
           total |-> 0]

\* the locals of a listing between its two queries
NoRead == [q |-> NoQuery, page |-> 1, limit |-> DefaultLimit,
           first |-> "none", body |-> NoBody]

Idle ==
  [pc |-> "idle", op |-> "none", userId |-> "u1", product_id |-> "p1",
   content |-> <<>>, parent_id |-> NULL, commentId |-> NULL,
   isAdmin |-> FALSE, parentUser |-> "u1", modified |-> {},
   snap |-> NoSnap, rd |-> NoRead]

\* ret is what the last step answered to its caller: NoRet while the
\* handler goes on; otherwise the handler, the comment id of the request
\* (parent_id for createComment) and the status: "ok" when it returned, the
\* exception when it threw.  sent is the sequence of calls the last step
\* made to the notification collaborators.
NoRet == [op |-> "none", target |-> NULL, status |-> "none"]

\* the handler op of worker p, called on comment id target, returns ("ok")
\* or throws r
Finish(p, op, target, r) ==
  /\ procs' = [procs EXCEPT ![p] = Idle]
  /\ ret' = [op |-> op, target |-> target, status |-> r]
  /\ UNCHANGED <<categories, productDocs, cprocs>>

\* the handler of worker p goes on to its next round-trip
Continue(p, rec) ==
  /\ procs' = [procs EXCEPT ![p] = rec]
  /\ ret' = NoRet
  /\ UNCHANGED <<categories, productDocs, cprocs>>

\* findByIdAndUpdate(par, {$push: {replies: id}, $inc: {reply_count: 1}})
\* applied to a collection
PushReplyIn(store, par, id) ==
  IF par \in DOMAIN store
  THEN [store EXCEPT ![par].replies = Append(@, id),
                     ![par].reply_count = @ + 1]
  ELSE store

\* the collection after a successful createComment of a top-level comment
WithComment(store, uid) ==
  Append(store, NewComment("p1", uid, <<"a">>, NULL))

\* the collection after a successful createComment of a reply to par
WithReply(store, uid, par) ==
  PushReplyIn(Append(store, NewComment("p1", uid, <<"a">>, par)),
              par, Len(store) + 1)

\* The service keeps no state of its own: it starts on the collection that
\* earlier requests left.  The stores a run may start from are the empty
\* one and those left by one to three successful createComment calls.
SeedStores ==
  LET top == WithComment(<<>>, "u1") IN
    {<<>>, top, WithReply(top, "u1", 1), WithReply(top, "u2", 1),
     WithReply(WithReply(top, "u2", 1), "u1", 1)}

Init ==
  /\ comments \in SeedStores
  /\ procs = [p \in Procs |-> Idle]
  /\ ret = NoRet
  /\ sent = <<>>
  /\ ncalls = 0
  /\ CatalogUntouched


\* creations that have not yet inserted their document
PendingCreates ==
  Cardinality({q \in Procs : procs[q].pc \in {"a_create", "c_save"}})

CanCreate == Len(comments) + PendingCreates < MaxComments

\* a request arrives at the idle worker p
Accept(p) ==
  /\ procs[p].pc = "idle"
  /\ ncalls < MaxCalls
  /\ ncalls' = ncalls + 1

\* ------------------------------------------------------- createComment
\* CreateCheck without the depth check
CreateCheckNoDepth(pid, par) ==
  IF ~IsValidProductId(pid) THEN "BadRequest"
  ELSE IF par = NULL THEN "pass"
  ELSE IF ~IsValidObjectId(par) THEN "BadRequest"
  ELSE IF ~FindLive(par) THEN "NotFound"
  ELSE "pass"

\* the checks of createComment before it builds the document: "pass" or
\* the exception thrown
CreateCheck(pid, par) ==
  IF ~IsValidProductId(pid) THEN "BadRequest"
  ELSE IF par = NULL THEN "pass"
  ELSE IF ~IsValidObjectId(par) THEN "BadRequest"
  ELSE IF ~FindLive(par) THEN "NotFound"
  ELSE IF IsReply(comments[par]) THEN "BadRequest"
  ELSE "pass"

\* comment.save(): schema validation, then the insert; worker p goes on to
\* the parent update (a reply) or to the read-back (a top-level comment)
SaveComment(p, uid, pid, c, par, parentUser) ==
  LET doc == NewComment(pid, uid, c, par) IN
    IF ~ContentValid(doc.content)
    THEN /\ Finish(p, "create", par, "ValidationError")
         /\ UNCHANGED comments
    ELSE /\ comments' = Append(comments, doc)
         /\ Continue(p, [Idle EXCEPT
              !.pc = IF par # NULL THEN "c_updateParent" ELSE "c_findCreated",
              !.op = "create", !.commentId = Len(comments) + 1,
              !.parent_id = par,
              !.userId = IF par # NULL THEN uid ELSE Idle.userId,
              !.product_id = IF par # NULL THEN pid ELSE Idle.product_id,
              !.parentUser = IF par # NULL THEN parentUser ELSE Idle.parentUser])

\* createComment up to and including its first round-trip: the checks with
\* findOne({_id: parent_id, is_deleted: false}) (a reply), or the checks and
\* comment.save() (a top-level comment)
EnterCreateComment(p, uid, pid, c, par) ==
  IF CreateCheck(pid, par) # "pass"
  THEN /\ Finish(p, "create", par, CreateCheck(pid, par))
       /\ UNCHANGED comments
  ELSE IF par = NULL THEN SaveComment(p, uid, pid, c, NULL, uid)
  ELSE /\ Continue(p, [Idle EXCEPT
            !.pc = "c_save", !.op = "create", !.userId = uid,
            !.product_id = pid, !.content = Trim(c), !.parent_id = par,
            !.parentUser = comments[par].user_id])
       /\ UNCHANGED comments

\* the store has room for every creation that gets past its checks
CallCreateComment(p) ==
  /\ Accept(p)
  /\ \E uid \in Users, pid \in ProductInputs, c \in CreateContents,
        par \in {NULL} \cup CommentIdInputs :
       /\ CanCreate \/ CreateCheck(pid, par) # "pass"
       /\ EnterCreateComment(p, uid, pid, c, par)
  /\ sent' = <<>>

\* comment.save() of a reply
C_Save(p) ==
  /\ procs[p].pc = "c_save"
  /\ SaveComment(p, procs[p].userId, procs[p].product_id, procs[p].content,
                 procs[p].parent_id, procs[p].parentUser)
  /\ sent' = <<>>
  /\ UNCHANGED ncalls

\* PushReply without the $inc
PushReplyNoInc(par, id) ==
  [comments EXCEPT ![par].replies = Append(@, id)]

\* PushReply as a write of values computed from a parent read without replies
PushReplyOverwrite(par, id) ==
  [comments EXCEPT ![par].replies = <<id>>, ![par].reply_count = 1]

\* findByIdAndUpdate(parent_id, {$push: {replies}, $inc: {reply_count: 1}})
PushReply(par, id) == PushReplyIn(comments, par, id)

C_UpdateParent(p) ==
  /\ procs[p].pc = "c_updateParent"
  /\ comments' = PushReply(procs[p].parent_id, procs[p].commentId)
  /\ Continue(p, [procs[p] EXCEPT !.pc = "c_findCreated"])
  /\ sent' = <<>>
  /\ UNCHANGED ncalls

\* NeedsNotification without the self-reply test
NeedsNotificationAlways(parentUser, uid) == TRUE

\* the guard of the notification block: a reply whose author differs from
\* the parent comment's author
NeedsNotification(parentUser, uid) == parentUser # uid

\* findById(comment._id) with populate, then the notification guard
C_FindCreated(p) ==
  /\ procs[p].pc = "c_findCreated"
  /\ IF procs[p].parent_id # NULL /\ Exists(procs[p].commentId)
        /\ NeedsNotification(procs[p].parentUser, procs[p].userId)
     THEN IF ProductPopulated(procs[p].product_id)
          THEN Continue(p, [procs[p] EXCEPT !.pc = "c_notify"])
          ELSE Finish(p, "create", procs[p].parent_id, "TypeError")
                                     \* product.name on null
     ELSE Finish(p, "create", procs[p].parent_id, "ok")
  /\ sent' = <<>>
  /\ UNCHANGED <<comments, ncalls>>

\* the outcomes of the two collaborator calls: createNotification resolves
\* or rejects; notifyCommentReply delivers, throws, or fails after returning
PersistOutcomes == {"persisted", "rejected"}
DeliverOutcomes == {"delivered", "thrown", "dropped"}

\* a call made to a notification collaborator
NotifyCall(p, name, failed) ==
  [call |-> name, to |-> procs[p].parentUser, actor |-> procs[p].userId,
   reference_id |-> procs[p].commentId, failed |-> failed]

\* the answer of createComment given the outcomes of the two calls: the
\* awaited createNotification and the notifyCommentReply call that follows
\* it are not guarded by any try/catch
NotifyResult(persist, deliver) ==
  IF persist = "rejected" THEN "NotifyError"
  ELSE IF deliver = "thrown" THEN "NotifyError"
  ELSE "ok"

\* C_Notify with a compensating soft delete of the reply when a call fails
C_NotifyRollback(p) ==
  /\ procs[p].pc = "c_notify"
  /\ \E persist \in PersistOutcomes, deliver \in DeliverOutcomes :
       /\ sent' = IF persist = "rejected"
                  THEN <<NotifyCall(p, "createNotification", TRUE)>>
                  ELSE <<NotifyCall(p, "createNotification", FALSE),
                         NotifyCall(p, "notifyCommentReply",
                                    deliver # "delivered")>>
       /\ Finish(p, "create", procs[p].parent_id,
                 NotifyResult(persist, deliver))
       /\ comments' = IF NotifyResult(persist, deliver) = "ok" THEN comments
                      ELSE [comments EXCEPT
                              ![procs[p].commentId].is_deleted = TRUE]
  /\ UNCHANGED ncalls

\* await createNotification(...), then notifyCommentReply(...), then return
C_Notify(p) ==
  /\ procs[p].pc = "c_notify"
  /\ \E persist \in PersistOutcomes, deliver \in DeliverOutcomes :
       /\ sent' = IF persist = "rejected"
                  THEN <<NotifyCall(p, "createNotification", TRUE)>>
                  ELSE <<NotifyCall(p, "createNotification", FALSE),
                         NotifyCall(p, "notifyCommentReply",
                                    deliver # "delivered")>>
       /\ Finish(p, "create", procs[p].parent_id,
                 NotifyResult(persist, deliver))
  /\ UNCHANGED <<comments, ncalls>>

\* --------------------------------------------------- adminReplyComment
\* the checks of adminReplyComment on the target comment
AdminReplyCheck(id) ==
  IF ~IsValidObjectId(id) THEN "BadRequest"
  ELSE IF ~FindLive(id) THEN "NotFound"
  ELSE IF ~ProductPopulated(comments[id].product_id)
       THEN "TypeError"              \* product_id._id on null
  ELSE "pass"

\* findOne({_id: commentId, is_deleted: false}) and the replyDto
CallAdminReplyComment(p) ==
  /\ Accept(p)
  /\ \E uid \in Users, c \in CreateContents, id \in CommentIdInputs :
       IF AdminReplyCheck(id) # "pass"
       THEN Finish(p, "adminReply", id, AdminReplyCheck(id))
       ELSE CanCreate /\ Continue(p, [Idle EXCEPT !.pc = "a_create", !.op = "adminReply",
                 !.userId = uid, !.content = c, !.parent_id = id,
                 !.product_id = comments[id].product_id])
  /\ sent' = <<>>
  /\ UNCHANGED comments

\* createComment(userId, replyDto) as called by adminReplyComment
A_Create(p) ==
  /\ procs[p].pc = "a_create"
  /\ EnterCreateComment(p, procs[p].userId, procs[p].product_id,
                        procs[p].content, procs[p].parent_id)
  /\ sent' = <<>>
  /\ UNCHANGED ncalls

\* ------------------------------------------------------- updateComment
\* the checks of updateComment
UpdateCheck(id, uid) ==
  IF ~IsValidObjectId(id) THEN "BadRequest"
  ELSE IF ~FindLive(id) THEN "NotFound"
  ELSE IF ~IsAuthor(comments[id], uid) THEN "Forbidden"
  ELSE "pass"

\* UpdatedContent without the trim setter of the schema
UpdatedContentRaw(old, c) == IF c # <<>> THEN c ELSE old

\* comment.content after `if (dto.content) comment.content = dto.content`
UpdatedContent(old, c) == IF c # <<>> THEN Trim(c) ELSE old

\* findOne({_id, is_deleted: false}), ownership check, assignment and the
\* validation that save() runs before it writes
CallUpdateComment(p) ==
  /\ Accept(p)
  /\ \E uid \in Users, c \in UpdateContents, id \in CommentIdInputs :
       IF UpdateCheck(id, uid) # "pass"
       THEN Finish(p, "update", id, UpdateCheck(id, uid))
       ELSE LET new == UpdatedContent(comments[id].content, c) IN
            IF ~ContentValid(new)
            THEN Finish(p, "update", id, "ValidationError")
            ELSE Continue(p, [Idle EXCEPT
                   !.op = "update", !.commentId = id,
                   !.content = IF new # comments[id].content THEN c ELSE <<>>,
                   !.modified = IF new # comments[id].content
                                THEN {"content"} ELSE {},
                   !.pc = IF new # comments[id].content
                          THEN "u_save" ELSE "u_read"])
  /\ sent' = <<>>
  /\ UNCHANGED comments

\* U_Save as a write of the whole document as it was loaded
U_SaveWholeDocument(p) ==
  /\ procs[p].pc = "u_save"
  /\ comments' = [comments EXCEPT ![procs[p].commentId].content =
                                    UpdatedContent(@, procs[p].content),
                                  ![procs[p].commentId].is_deleted = FALSE]
  /\ Continue(p, [Idle EXCEPT !.pc = "u_read", !.op = "update",
                              !.commentId = procs[p].commentId])
  /\ sent' = <<>>
  /\ UNCHANGED ncalls

\* comment.save(): updateOne({_id}, {$set: {content}})
U_Save(p) ==
  /\ procs[p].pc = "u_save"
  /\ comments' = [comments EXCEPT ![procs[p].commentId].content =
                                    UpdatedContent(@, procs[p].content)]
  /\ Continue(p, [Idle EXCEPT !.pc = "u_read", !.op = "update",
                              !.commentId = procs[p].commentId])
  /\ sent' = <<>>
  /\ UNCHANGED ncalls

\* findById(comment._id) and return
U_Read(p) ==
  /\ procs[p].pc = "u_read"
  /\ Finish(p, "update", procs[p].commentId, "ok")
  /\ sent' = <<>>
  /\ UNCHANGED <<comments, ncalls>>

\* ------------------------------------------------------- deleteComment
\* DeleteCheck with findOne({_id}) in place of findOne({_id, is_deleted: false})
DeleteCheckNoFilter(id, uid, isAdmin) ==
  IF ~IsValidObjectId(id) THEN "BadRequest"
  ELSE IF id \notin DOMAIN comments THEN "NotFound"
  ELSE IF ~isAdmin /\ ~IsAuthor(comments[id], uid) THEN "Forbidden"
  ELSE "pass"

\* the checks of deleteComment
DeleteCheck(id, uid, isAdmin) ==
  IF ~IsValidObjectId(id) THEN "BadRequest"
  ELSE IF ~FindLive(id) THEN "NotFound"
  ELSE IF ~isAdmin /\ ~IsAuthor(comments[id], uid) THEN "Forbidden"
  ELSE "pass"

\* findOne({_id, is_deleted: false}) and the permission check
CallDeleteComment(p) ==
  /\ Accept(p)
  /\ \E uid \in Users, adm \in BOOLEAN, id \in CommentIdInputs :
       IF DeleteCheck(id, uid, adm) # "pass"
       THEN Finish(p, "delete", id, DeleteCheck(id, uid, adm))
       ELSE Continue(p, [Idle EXCEPT !.pc = "d_save", !.op = "delete",
                 !.commentId = id, !.parent_id = comments[id].parent_id])
  /\ sent' = <<>>
  /\ UNCHANGED comments

\* D_Save that also soft-deletes the replies of the deleted comment
D_SaveCascade(p) ==
  /\ procs[p].pc = "d_save"
  /\ comments' = [i \in DOMAIN comments |->
                   IF i = procs[p].commentId \/ comments[i].parent_id = procs[p].commentId
                   THEN [comments[i] EXCEPT !.is_deleted = TRUE]
                   ELSE comments[i]]
  /\ IF procs[p].parent_id # NULL
     THEN Continue(p, [procs[p] EXCEPT !.pc = "d_findParent"])
     ELSE Finish(p, "delete", procs[p].commentId, "ok")
  /\ sent' = <<>>
  /\ UNCHANGED ncalls

\* D_Save that also detaches the deleted reply from its parent
D_SaveDetach(p) ==
  /\ procs[p].pc = "d_save"
  /\ comments' = [comments EXCEPT ![procs[p].commentId].is_deleted = TRUE,
                                  ![procs[p].commentId].parent_id = NULL]
  /\ IF procs[p].parent_id # NULL
     THEN Continue(p, [procs[p] EXCEPT !.pc = "d_findParent"])
     ELSE Finish(p, "delete", procs[p].commentId, "ok")
  /\ sent' = <<>>
  /\ UNCHANGED ncalls

\* comment.is_deleted = true; comment.save()
D_Save(p) ==
  /\ procs[p].pc = "d_save"
  /\ comments' = [comments EXCEPT ![procs[p].commentId].is_deleted = TRUE]
  /\ IF procs[p].parent_id # NULL
     THEN Continue(p, [procs[p] EXCEPT !.pc = "d_findParent"])
     ELSE Finish(p, "delete", procs[p].commentId, "ok")
  /\ sent' = <<>>
  /\ UNCHANGED ncalls

\* Recount with a blind decrement in place of the recount
RecountDecrement(parent, id) ==
  [parent EXCEPT !.replies = FilterOut(parent.replies, id),
                 !.reply_count = parent.reply_count - 1]

\* the parent document after the filter and the recount
Recount(parent, id) ==
  LET kept == FilterOut(parent.replies, id) IN
    [parent EXCEPT !.replies = kept, !.reply_count = Len(kept)]

\* the paths Mongoose marks modified: those whose value changed
ModifiedPaths(old, new) ==
  (IF new.replies # old.replies THEN {"replies"} ELSE {})
    \cup (IF new.reply_count # old.reply_count THEN {"reply_count"} ELSE {})

\* findById(comment.parent_id), filter, recount
D_FindParent(p) ==
  /\ procs[p].pc = "d_findParent"
  /\ LET par == procs[p].parent_id IN
       IF ~Exists(par) THEN Finish(p, "delete", procs[p].commentId, "ok")
       ELSE LET new == Recount(comments[par], procs[p].commentId)
                mod == ModifiedPaths(comments[par], new) IN
            IF mod = {}              \* save() has nothing to write
            THEN Finish(p, "delete", procs[p].commentId, "ok")
            ELSE Continue(p, [procs[p] EXCEPT
                   !.pc = "d_saveParent", !.modified = mod,
                   !.snap = [replies |-> new.replies,
                             reply_count |-> new.reply_count,
                             v |-> comments[par].v]])
  /\ sent' = <<>>
  /\ UNCHANGED <<comments, ncalls>>

\* SavedParent that writes reply_count only
SavedParentCountOnly(cur, snap, mod) ==
  [cur EXCEPT
     !.reply_count = IF "reply_count" \in mod THEN snap.reply_count ELSE @]

\* the parent document after parentComment.save(): $set of the modified paths
SavedParent(cur, snap, mod) ==
  [cur EXCEPT
     !.replies = IF "replies" \in mod THEN snap.replies ELSE @,
     !.reply_count = IF "reply_count" \in mod THEN snap.reply_count ELSE @,
     !.v = IF "replies" \in mod THEN @ + 1 ELSE @]

\* parentComment.save(); a $set of the whole replies array is versioned
\* (where __v = the loaded version, $inc __v) and fails on a mismatch
D_SaveParent(p) ==
  /\ procs[p].pc = "d_saveParent"
  /\ LET par == procs[p].parent_id
         snap == procs[p].snap
         mod == procs[p].modified IN
       IF "replies" \in mod /\ comments[par].v # snap.v
       THEN /\ Finish(p, "delete", procs[p].commentId, "VersionError")
            /\ UNCHANGED comments
       ELSE /\ comments' = [comments EXCEPT
                 ![par] = SavedParent(comments[par], snap, mod)]
            /\ Finish(p, "delete", procs[p].commentId, "ok")
  /\ sent' = <<>>
  /\ UNCHANGED ncalls

\* ----------------------------------------------------------- the system
\* one round-trip of the request worker p serves
Step(p) ==
  \/ CallCreateComment(p)
  \/ C_Save(p)
  \/ C_UpdateParent(p)
  \/ C_FindCreated(p)
  \/ C_Notify(p)
  \/ CallAdminReplyComment(p)
  \/ A_Create(p)
  \/ CallUpdateComment(p)
  \/ U_Save(p)
  \/ U_Read(p)
  \/ CallDeleteComment(p)
  \/ D_Save(p)
  \/ D_FindParent(p)
  \/ D_SaveParent(p)

Next == \E p \in Procs : Step(p)

\* concurrent write requests against a collection left by completed calls
Spec == Init /\ [][Next]_vars

\* ---------------------------------------------------------- the reads
Pages == {1, 2}
Limits == {1, DefaultLimit}
BadUser == "zz"
UserIdInputs == Users \cup {BadUser}
IsValidUserId(uid) == uid # BadUser
SearchInputs == {<<>>, <<"A">>}
CategoryStore == {"phones"}
CategoryInputs == CategoryStore \cup {"tablets"}
\* category.slug of the category of each stored product
ProductCategory == [pid \in ProductStore |-> "phones"]

Min(a, b) == IF a < b THEN a ELSE b

\* $options: 'i'
Lower(ch) == IF ch = "A" THEN "a" ELSE IF ch = "B" THEN "b" ELSE ch
LowerSeq(s) == [i \in 1..Len(s) |-> Lower(s[i])]

\* content matches {$regex: search, $options: 'i'}
RegexMatch(content, search) ==
  \E i \in 1..(Len(content) + 1) :
    /\ i + Len(search) - 1 <= Len(content)
    /\ LowerSeq(SubSeq(content, i, i + Len(search) - 1)) = LowerSeq(search)

Reverse(s) == [i \in 1..Len(s) |-> s[Len(s) + 1 - i]]

\* the ids of the collection by created_at, oldest first
ByCreatedAt == [i \in 1..Len(comments) |-> i]

\* Matches with a getCommentsByProduct that does not filter on parent_id
MatchesAnyParent(q, i) ==
  LET c == comments[i] IN
    CASE q.kind = "getCommentsByProduct" ->
           c.product_id = q.product_id /\ ~c.is_deleted
      [] q.kind = "getCommentsByUser" ->
           c.user_id = q.user_id /\ ~c.is_deleted
      [] q.kind = "getReplies" ->
           c.parent_id = q.commentId /\ ~c.is_deleted
      [] q.kind = "getAllCommentsAdmin" ->
           /\ ~c.is_deleted /\ c.parent_id = NULL
           /\ (q.product_id # NoProduct => c.product_id = q.product_id)
           /\ (q.search # <<>> => RegexMatch(c.content, q.search))
      [] OTHER -> FALSE

\* the comment with id i matches the filter of query q
Matches(q, i) ==
  LET c == comments[i] IN
    CASE q.kind = "getCommentsByProduct" ->
           /\ c.product_id = q.product_id /\ ~c.is_deleted
           /\ c.parent_id = q.parent_id
      [] q.kind = "getCommentsByUser" ->
           c.user_id = q.user_id /\ ~c.is_deleted
      [] q.kind = "getReplies" ->
           c.parent_id = q.commentId /\ ~c.is_deleted
      [] q.kind = "getAllCommentsAdmin" ->
           /\ ~c.is_deleted /\ c.parent_id = NULL
           /\ (q.product_id # NoProduct => c.product_id = q.product_id)
           /\ (q.search # <<>> => RegexMatch(c.content, q.search))
      [] OTHER -> FALSE

\* find(filter).sort(...): getReplies sorts oldest first, the others newest first
Found(q) ==
  LET asc == SelectSeq(ByCreatedAt, LAMBDA i : Matches(q, i)) IN
    IF q.kind = "getReplies" THEN asc ELSE Reverse(asc)

\* .skip((page - 1) * limit).limit(limit)
PageOf(s, page, limit) ==
  LET skip == (page - 1) * limit IN
    SubSeq(s, skip + 1, Min(skip + limit, Len(s)))

\* populate({path: 'parent_id', select: 'content user_id'}): the comments
\* whose content is returned as the parent summary of an item
PopulatedParents(items) ==
  {comments[items[k]].parent_id : k \in DOMAIN items} \ {NULL}

\* countDocuments(filter)
CountDocuments(q) == Cardinality({i \in DOMAIN comments : Matches(q, i)})

\* the result of the find of a listing
FindBody(q, page, limit, body) ==
  LET items == PageOf(Found(q), page, limit) IN
    [body EXCEPT !.items = items,
                 !.parents = IF q.kind = "getCommentsByUser"
                             THEN PopulatedParents(items) ELSE {},
                 !.nmatch = Len(Found(q))]

\* the result of the countDocuments of a listing
CountBody(q, body) == [body EXCEPT !.total = CountDocuments(q)]

\* a read returns body or throws
ReadFinish(p, op, target, r, body) ==
  /\ procs' = [procs EXCEPT ![p] = Idle]
  /\ ret' = [op |-> op, target |-> target, status |-> r, body |-> body]
  /\ UNCHANGED <<categories, productDocs, cprocs>>

\* Promise.all([find, countDocuments]): the store serves one of the two
\* queries first
StartListing(p, q, page, limit) ==
  \E first \in {"find", "count"} :
    Continue(p, [Idle EXCEPT
      !.pc = "l_second", !.op = q.kind,
      !.rd = [q |-> q, page |-> page, limit |-> limit, first |-> first,
              body |-> IF first = "find"
                       THEN FindBody(q, page, limit, NoBody)
                       ELSE CountBody(q, NoBody)]])

\* the store serves the other query and the listing returns
L_Second(p) ==
  /\ procs[p].pc = "l_second"
  /\ LET rd == procs[p].rd IN
       ReadFinish(p, rd.q.kind, rd.q.commentId, "ok",
                  IF rd.first = "find" THEN CountBody(rd.q, rd.body)
                  ELSE FindBody(rd.q, rd.page, rd.limit, rd.body))
  /\ sent' = <<>>
  /\ UNCHANGED <<comments, ncalls>>

CallGetCommentsByProduct(p) ==
  /\ Accept(p)
  /\ \E pid \in ProductInputs \cup {NoProduct},
        par \in {NULL} \cup CommentIdInputs, page \in Pages, limit \in Limits :
       IF pid = NoProduct \/ ~IsValidProductId(pid)
            \/ (par # NULL /\ ~IsValidObjectId(par))
       THEN ReadFinish(p, "getCommentsByProduct", NULL, "BadRequest", NoBody)
       ELSE StartListing(p, [NoQuery EXCEPT !.kind = "getCommentsByProduct",
                               !.product_id = pid, !.parent_id = par],
                         page, limit)
  /\ sent' = <<>>
  /\ UNCHANGED comments

CallGetCommentsByUser(p) ==
  /\ Accept(p)
  /\ \E uid \in UserIdInputs, page \in Pages, limit \in Limits :
       IF ~IsValidUserId(uid)
       THEN ReadFinish(p, "getCommentsByUser", NULL, "BadRequest", NoBody)
       ELSE StartListing(p, [NoQuery EXCEPT !.kind = "getCommentsByUser",
                               !.user_id = uid], page, limit)
  /\ sent' = <<>>
  /\ UNCHANGED comments

CallGetReplies(p) ==
  /\ Accept(p)
  /\ \E id \in CommentIdInputs, page \in Pages, limit \in Limits :
       IF ~IsValidObjectId(id)
       THEN ReadFinish(p, "getReplies", id, "BadRequest", NoBody)
       ELSE StartListing(p, [NoQuery EXCEPT !.kind = "getReplies",
                               !.commentId = id], page, limit)
  /\ sent' = <<>>
  /\ UNCHANGED comments

CallGetAllCommentsAdmin(p) ==
  /\ Accept(p)
  /\ \E pid \in ProductInputs \cup {NoProduct}, search \in SearchInputs,
        page \in Pages, limit \in Limits :
       StartListing(p, [NoQuery EXCEPT !.kind = "getAllCommentsAdmin",
                          !.product_id = IF pid # NoProduct /\ IsValidProductId(pid)
                                         THEN pid ELSE NoProduct,
                          !.search = search], page, limit)
  /\ sent' = <<>>
  /\ UNCHANGED comments

\* findOne({_id, is_deleted: false}) with the populates
CallGetCommentById(p) ==
  /\ Accept(p)
  /\ \E id \in CommentIdInputs :
       IF ~IsValidObjectId(id)
       THEN ReadFinish(p, "getCommentById", id, "BadRequest", NoBody)
       ELSE IF ~FindLive(id)
       THEN ReadFinish(p, "getCommentById", id, "NotFound", NoBody)
       ELSE ReadFinish(p, "getCommentById", id, "ok",
                       [NoBody EXCEPT !.items = <<id>>,
                                      !.parents = PopulatedParents(<<id>>),
                                      !.nmatch = 1, !.total = 1])
  /\ sent' = <<>>
  /\ UNCHANGED comments

\* $match {is_deleted: false, parent_id: null}, grouped by product_id, joined
\* with the stored products
Counted(products) ==
  {i \in DOMAIN comments : /\ ~comments[i].is_deleted
                           /\ comments[i].parent_id = NULL
                           /\ comments[i].product_id \in products}

\* the groups of an aggregate over the products given
AggregateBody(products) ==
  LET counted == Counted(products)
      groups == {comments[i].product_id : i \in counted} IN
    [NoBody EXCEPT !.counted = counted, !.nmatch = Cardinality(groups),
                   !.total = Cardinality(groups)]

CallGetCommentsByProductAdmin(p) ==
  /\ Accept(p)
  /\ ReadFinish(p, "getCommentsByProductAdmin", NULL, "ok",
                AggregateBody(ProductStore))
  /\ sent' = <<>>
  /\ UNCHANGED comments

CallGetProductsWithCommentsByCategory(p) ==
  /\ Accept(p)
  /\ \E slug \in CategoryInputs :
       ReadFinish(p, "getProductsWithCommentsByCategory", NULL, "ok",
                  AggregateBody({pid \in ProductStore :
                                   ProductCategory[pid] = slug}))
  /\ sent' = <<>>
  /\ UNCHANGED comments

\* one round-trip of a read request worker p serves
ReadStep(p) ==
  \/ CallGetCommentsByProduct(p)
  \/ CallGetCommentsByUser(p)
  \/ CallGetReplies(p)
  \/ CallGetAllCommentsAdmin(p)
  \/ L_Second(p)
  \/ CallGetCommentById(p)
  \/ CallGetCommentsByProductAdmin(p)
  \/ CallGetProductsWithCommentsByCategory(p)

ReadNext == \E p \in Procs : Step(p) \/ ReadStep(p)

\* concurrent read and write requests
ReadSpec == Init /\ [][ReadNext]_vars

\* the write handlers together with the two listings that return replies
ReplyReadNext ==
  \E p \in Procs :
    Step(p) \/ CallGetReplies(p) \/ CallGetCommentsByUser(p) \/ L_Second(p)

ReplyReadSpec == Init /\ [][ReplyReadNext]_vars

\* read and write requests served one after the other
ReadSeqNext == Step("w1") \/ ReadStep("w1")

ReadSeqSpec == Init /\ [][ReadSeqNext]_vars

\* ------------------------------------------- a drifted collection
\* ids of the replies stored in a collection
ReplyIds(store) == {i \in DOMAIN store : store[i].parent_id # NULL}

\* the replies arrays of at most two ids over the replies of a collection
DriftReplies(store) ==
  {<<>>} \cup {<<a>> : a \in ReplyIds(store)}
         \cup {<<a, b>> : a \in ReplyIds(store), b \in ReplyIds(store)}

\* collections whose comment 1 holds any replies array and any reply_count:
\* what an earlier inconsistency (a crash between two round-trips, a lost
\* update) may have left
DriftStores ==
  LET top == WithComment(<<>>, "u1")
      bases == {WithReply(top, "u2", 1),
                WithReply(WithReply(top, "u2", 1), "u1", 1)}
  IN {[b EXCEPT ![1].replies = rs, ![1].reply_count = k] :
        b \in bases, rs \in DriftReplies(WithReply(WithReply(top, "u2", 1), "u1", 1)),
        k \in 0..MaxComments}

InitDrift ==
  /\ comments \in {d \in DriftStores : \A i \in 1..Len(d[1].replies) :
                                          d[1].replies[i] \in DOMAIN d}
  /\ procs = [p \in Procs |-> Idle]
  /\ ret = NoRet
  /\ sent = <<>>
  /\ ncalls = 0
  /\ CatalogUntouched

\* requests served one after the other
SeqNext == Step("w1")

\* sequential requests against a collection that may have drifted
DriftSpec == InitDrift /\ [][SeqNext]_vars

\* requests served one after the other on a collection left by completed calls
SeqSpec == Init /\ [][SeqNext]_vars

\* ======================================================= CategoryService
MaxCategories == 3

\* An id as a request carries it: a string of hex digits.  oid is the
\* ObjectId the string denotes and upper tells the case its letters are
\* written in; a malformed string denotes none.
IdStrings == [oid : 1..(MaxCategories + 1), upper : BOOLEAN]
MalformedString == [oid |-> BadId, upper |-> FALSE]
IdStringInputs == IdStrings \cup {MalformedString}

\* a dto without parent_id
NoString == [oid |-> NULL, upper |-> FALSE]

\* Types.ObjectId.isValid on a request string
IsValidIdString(s) == s.oid >= 1

\* new Types.ObjectId(s), and the cast of a string in a query
ToObjectId(s) == s.oid

Slugs == {"s1", "s2", "s3"}
NoSlug == "none"
ActiveInputs == {"absent", "true", "false"}

\* the file of the request: none, uploaded, or rejected by the image host
UploadOutcomes == {"nofile", "uploaded", "failed"}

\* new this.categoryModel({...dto, parent_id, is_active}) with the defaults
\* of the schema
NewCategory(parent, slug, active) ==
  [parent_id |-> parent, slug |-> slug, is_active |-> active # "false",
   is_deleted |-> FALSE]

\* findOne({_id: i, is_deleted: false}) finds a category
LiveCategory(i) == i \in DOMAIN categories /\ ~categories[i].is_deleted

\* the unique index on slug holds slug for a document other than except
SlugTaken(slug, except) ==
  \E i \in DOMAIN categories : i # except /\ categories[i].slug = slug

\* findOne({parent_id: id, is_deleted: false}) finds a category
HasChildren(id) ==
  \E i \in DOMAIN categories :
    categories[i].parent_id = id /\ ~categories[i].is_deleted

\* a CategoryService call of worker p returns or throws
CatFinish(p, op, target, r) ==
  /\ cprocs' = [cprocs EXCEPT ![p] = CatIdle]
  /\ ret' = [op |-> op, target |-> target, status |-> r]
  /\ UNCHANGED <<comments, procs, sent>>

\* a CategoryService call of worker p goes on to its next round-trip
CatContinue(p, rec) ==
  /\ cprocs' = [cprocs EXCEPT ![p] = rec]
  /\ ret' = NoRet
  /\ UNCHANGED <<comments, procs, sent>>

\* a request arrives at the idle worker p
CatAccept(p) ==
  /\ cprocs[p].pc = "idle"
  /\ ncalls < MaxCalls
  /\ ncalls' = ncalls + 1

\* the store has room for every creation that gets past its checks
CanCreateCategory ==
  Len(categories) + Cardinality({q \in Procs : cprocs[q].pc = "cat_c_save"})
    < MaxCategories

\* ---------------------------------------------------------------- create
\* the checks of create on dto.parent_id
CategoryCreateCheck(par) ==
  IF par = NoString THEN "pass"
  ELSE IF ~IsValidIdString(par) THEN "BadRequest"
  ELSE IF ~LiveCategory(ToObjectId(par)) THEN "NotFound"
  ELSE "pass"

\* the upload, new categoryModel and category.save(): a duplicate slug is
\* answered with BadRequest
SaveCategory(p, parent, slug, active) ==
  \E upload \in UploadOutcomes :
    IF upload = "failed" \/ SlugTaken(slug, NULL)
    THEN /\ CatFinish(p, "CategoryService.create", parent, "BadRequest")
         /\ UNCHANGED categories
    ELSE /\ categories' = Append(categories, NewCategory(parent, slug, active))
         /\ CatFinish(p, "CategoryService.create", parent, "ok")

\* create up to and including its first round-trip: the checks with
\* findOne({_id: parent_id, is_deleted: false}), or, without a parent_id,
\* the whole call
Cat_CallCreate(p) ==
  /\ CatAccept(p)
  /\ \E par \in {NoString} \cup IdStringInputs, slug \in Slugs,
        active \in ActiveInputs :
       IF CategoryCreateCheck(par) # "pass"
       THEN /\ CatFinish(p, "CategoryService.create", ToObjectId(par),
                         CategoryCreateCheck(par))
            /\ UNCHANGED categories
       ELSE /\ CanCreateCategory
            /\ IF par = NoString
               THEN SaveCategory(p, NULL, slug, active)
               ELSE /\ CatContinue(p, [CatIdle EXCEPT
                         !.pc = "cat_c_save", !.op = "CategoryService.create",
                         !.parent_id = ToObjectId(par), !.slug = slug,
                         !.is_active = active])
                    /\ UNCHANGED categories
  /\ UNCHANGED productDocs

\* the upload and category.save() of a create with a parent_id
Cat_C_Save(p) ==
  /\ cprocs[p].pc = "cat_c_save"
  /\ SaveCategory(p, cprocs[p].parent_id, cprocs[p].slug, cprocs[p].is_active)
  /\ UNCHANGED <<ncalls, productDocs>>

\* ---------------------------------------------------------------- update
\* the checks of update on id and dto.parent_id; the two strings are
\* compared as strings
CategoryUpdateCheck(id, par) ==
  IF ~IsValidIdString(id) THEN "BadRequest"
  ELSE IF par = NoString THEN "pass"
  ELSE IF ~IsValidIdString(par) THEN "BadRequest"
  ELSE IF par = id THEN "BadRequest"
  ELSE IF ~LiveCategory(ToObjectId(par)) THEN "NotFound"
  ELSE "pass"

\* the document after $set: updateData
UpdatedCategory(cat, parent, slug, active) ==
  [cat EXCEPT
     !.parent_id = IF parent # NULL THEN parent ELSE @,
     !.slug = IF slug # NoSlug THEN slug ELSE @,
     !.is_active = IF active # "absent" THEN active = "true" ELSE @]

\* the upload and findOneAndUpdate({_id: id, is_deleted: false}, {$set})
FindOneAndUpdate(p, id, parent, slug, active) ==
  \E upload \in UploadOutcomes :
    IF upload = "failed"
    THEN /\ CatFinish(p, "CategoryService.update", id, "BadRequest")
         /\ UNCHANGED categories
    ELSE IF ~LiveCategory(id)
    THEN /\ CatFinish(p, "CategoryService.update", id, "NotFound")
         /\ UNCHANGED categories
    ELSE IF slug # NoSlug /\ SlugTaken(slug, id)
    THEN /\ CatFinish(p, "CategoryService.update", id, "BadRequest")
         /\ UNCHANGED categories
    ELSE /\ categories' = [categories EXCEPT
              ![id] = UpdatedCategory(@, parent, slug, active)]
         /\ CatFinish(p, "CategoryService.update", id, "ok")

\* update up to and including its first round-trip
Cat_CallUpdate(p) ==
  /\ CatAccept(p)
  /\ \E id \in IdStringInputs, par \in {NoString} \cup IdStringInputs,
        slug \in {NoSlug} \cup Slugs, active \in ActiveInputs :
       IF CategoryUpdateCheck(id, par) # "pass"
       THEN /\ CatFinish(p, "CategoryService.update", ToObjectId(id),
                         CategoryUpdateCheck(id, par))
            /\ UNCHANGED categories
       ELSE IF par = NoString
       THEN FindOneAndUpdate(p, ToObjectId(id), NULL, slug, active)
       ELSE /\ CatContinue(p, [CatIdle EXCEPT
                 !.pc = "cat_u_write", !.op = "CategoryService.update",
                 !.id = ToObjectId(id), !.parent_id = ToObjectId(par),
                 !.slug = slug, !.is_active = active])
            /\ UNCHANGED categories
  /\ UNCHANGED productDocs

\* the upload and findOneAndUpdate of an update with a parent_id
Cat_U_Write(p) ==
  /\ cprocs[p].pc = "cat_u_write"
  /\ FindOneAndUpdate(p, cprocs[p].id, cprocs[p].parent_id, cprocs[p].slug,
                      cprocs[p].is_active)
  /\ UNCHANGED <<ncalls, productDocs>>

\* ------------------------------------------ delete and deleteWithProducts
\* the checks of delete and of deleteWithProducts
CategoryDeleteCheck(id) ==
  IF ~IsValidIdString(id) THEN "BadRequest"
  ELSE IF HasChildren(ToObjectId(id)) THEN "BadRequest"
  ELSE "pass"

\* the id check and findOne({parent_id: id, is_deleted: false})
Cat_CallDelete(p) ==
  /\ CatAccept(p)
  /\ \E id \in IdStringInputs,
        op \in {"CategoryService.delete", "CategoryService.deleteWithProducts"} :
       IF CategoryDeleteCheck(id) # "pass"
       THEN CatFinish(p, op, ToObjectId(id), CategoryDeleteCheck(id))
       ELSE CatContinue(p, [CatIdle EXCEPT
              !.pc = IF op = "CategoryService.delete"
                     THEN "cat_d_write" ELSE "cat_d_products",
              !.op = op, !.id = ToObjectId(id)])
  /\ UNCHANGED <<categories, productDocs>>

\* the products that updateMany({category_id: id, is_deleted: false}) matches
InCategory(id) ==
  {i \in DOMAIN productDocs :
     productDocs[i].category_id = id /\ ~productDocs[i].is_deleted}

\* productModel.updateMany(..., {$set: {is_deleted: true, is_active: false}})
Cat_D_Products(p) ==
  /\ cprocs[p].pc = "cat_d_products"
  /\ productDocs' = [i \in DOMAIN productDocs |->
                    IF i \in InCategory(cprocs[p].id)
                    THEN [productDocs[i] EXCEPT !.is_deleted = TRUE,
                                             !.is_active = FALSE]
                    ELSE productDocs[i]]
  /\ CatContinue(p, [cprocs[p] EXCEPT
         !.pc = "cat_d_write",
         !.modifiedCount = Cardinality(InCategory(cprocs[p].id))])
  /\ UNCHANGED <<ncalls, categories>>

\* findByIdAndUpdate(id, {$set: {is_deleted: true, is_active: false}})
Cat_D_Write(p) ==
  /\ cprocs[p].pc = "cat_d_write"
  /\ IF cprocs[p].id \notin DOMAIN categories
     THEN /\ CatFinish(p, cprocs[p].op, cprocs[p].id, "NotFound")
          /\ UNCHANGED categories
     ELSE /\ categories' = [categories EXCEPT
               ![cprocs[p].id].is_deleted = TRUE,
               ![cprocs[p].id].is_active = FALSE]
          /\ CatFinish(p, cprocs[p].op, cprocs[p].id, "ok")
  /\ UNCHANGED <<ncalls, productDocs>>

\* one round-trip of the CategoryService call worker p serves
CatStep(p) ==
  \/ Cat_CallCreate(p)
  \/ Cat_C_Save(p)
  \/ Cat_CallUpdate(p)
  \/ Cat_U_Write(p)
  \/ Cat_CallDelete(p)
  \/ Cat_D_Products(p)
  \/ Cat_D_Write(p)

CatNext == \E p \in Procs : CatStep(p)

\* a product of the catalog filed under category id
ProductIn(id) == [category_id |-> id, is_deleted |-> FALSE, is_active |-> TRUE]

\* The service keeps no state of its own: it starts on the collections that
\* earlier requests left: the empty catalog, and those left by one or two
\* successful create calls, with a product filed under the newest category.
CatSeedStores ==
  LET root == NewCategory(NULL, "s1", "absent") IN
    {<<>>, <<root>>,
     <<root, NewCategory(NULL, "s2", "absent")>>,
     <<root, NewCategory(1, "s2", "absent")>>}

CatInit ==
  /\ categories \in CatSeedStores
  /\ productDocs = IF categories = <<>> THEN <<>>
                ELSE <<ProductIn(Len(categories))>>
  /\ cprocs = [p \in Procs |-> CatIdle]
  /\ comments = <<>>
  /\ procs = [p \in Procs |-> Idle]
  /\ ret = NoRet
  /\ sent = <<>>
  /\ ncalls = 0

CategorySpec == CatInit /\ [][CatNext]_vars

\* ================================================================ claims
\* worker p takes the step and its handler ends with it
Ends(p) == procs[p].pc # "idle" /\ procs'[p].pc = "idle"

\* s without every occurrence of id
Without(s, id) == SelectSeq(s, LAMBDA x : x # id)

\* C1: every comment with a non-null parent_id references a stored comment
\* whose own parent_id is null (reply depth never exceeds 2).
C1_DepthAtMostTwo ==
  \A i \in DOMAIN comments :
    comments[i].parent_id # NULL =>
      /\ comments[i].parent_id \in DOMAIN comments
      /\ comments[comments[i].parent_id].parent_id = NULL

\* a reply creation has completed on a parent that has replies
C1_Witness ==
  /\ ret.op = "create" /\ ret.status = "ok" /\ ret.target # NULL
  /\ Len(comments[ret.target].replies) >= 1

\* C2: in every state, between round-trips included, reply_count of every
\* comment equals the number of ids in its replies.
C2_ReplyCountIsLen ==
  \A i \in DOMAIN comments :
    comments[i].reply_count = Len(comments[i].replies)

\* a createComment and a deleteComment are both between two round-trips on
\* the same parent
C2_Witness ==
  \E p \in Procs, q \in Procs :
    /\ procs[p].pc = "c_updateParent"
    /\ procs[q].pc = "d_saveParent"
    /\ procs[p].parent_id = procs[q].parent_id

\* C3 as stated: every createComment that replies to a stored, non-deleted,
\* top-level parent and is not turned down for its input (a malformed id, a
\* parent not found, blank content, a product_id of no stored product)
\* succeeds: it answers with the created comment.
C3_AsStated ==
  (/\ ret.op = "create"
   /\ ret.target \in DOMAIN comments
   /\ comments[ret.target].parent_id = NULL
   /\ ret.status \notin {"BadRequest", "NotFound", "ValidationError",
                         "TypeError"})
  => ret.status = "ok"

\* C4 as stated: every createComment whose parent_id references a stored
\* comment that itself has a non-null parent_id fails with BadRequest.
C4_AsStated ==
  \A pid \in ProductInputs, par \in DOMAIN comments :
    comments[par].parent_id # NULL => CreateCheck(pid, par) = "BadRequest"

\* C4 amended: a createComment whose parent_id references a stored reply
\* fails with BadRequest if that reply is not soft-deleted (or product_id is
\* malformed) and with NotFound if it is soft-deleted; such a call is never
\* let through to the insert, and a create that fails with either error
\* leaves every comment record unchanged.
C4_ReplyToReplyRejected ==
  /\ [](\A pid \in ProductInputs, par \in DOMAIN comments :
          comments[par].parent_id # NULL =>
            CreateCheck(pid, par) =
              IF IsValidProductId(pid) /\ comments[par].is_deleted
              THEN "NotFound" ELSE "BadRequest")
  /\ [][/\ \A p \in Procs :
             (procs'[p].pc = "c_save" /\ procs[p].pc # "c_save")
             => comments[procs'[p].parent_id].parent_id = NULL
        /\ (ret'.op = "create" /\ ret'.status \in {"BadRequest", "NotFound"})
             => comments' = comments
       ]_vars

\* a createComment on a stored, non-deleted reply was answered BadRequest
C4_Witness ==
  /\ ret.op = "create" /\ ret.status = "BadRequest"
  /\ ret.target \in DOMAIN comments
  /\ comments[ret.target].parent_id # NULL
  /\ ~comments[ret.target].is_deleted

\* C5: a createComment with a well-formed product_id whose parent_id names
\* no stored comment, or a soft-deleted one, fails with NotFound; no worker
\* gets past the parent check on a soft-deleted parent, and a create that
\* fails with NotFound writes nothing.
C5_DeadParentNotFound ==
  /\ [](\A pid \in ProductInputs, par \in CommentIds :
          (IsValidProductId(pid)
             /\ (par \notin DOMAIN comments \/ comments[par].is_deleted))
          => CreateCheck(pid, par) = "NotFound")
  /\ [][/\ \A p \in Procs :
             (procs'[p].pc = "c_save" /\ procs[p].pc # "c_save")
             => /\ procs'[p].parent_id \in DOMAIN comments
                /\ ~comments[procs'[p].parent_id].is_deleted
        /\ (ret'.op = "create" /\ ret'.status = "NotFound")
             => comments' = comments
       ]_vars

\* a createComment on a soft-deleted parent was answered NotFound
C5_Witness ==
  /\ ret.op = "create" /\ ret.status = "NotFound"
  /\ ret.target \in DOMAIN comments
  /\ comments[ret.target].is_deleted

\* C6: when a deleteComment of a reply succeeds, the parent's replies are
\* its previous replies without the deleted id, its reply_count is the
\* length of the resulting replies, whatever the two were before, and no
\* other comment changes in that step.
C6_DeleteRecounts ==
  [][\A p \in Procs :
       (procs[p].pc \in {"d_findParent", "d_saveParent"} /\ Ends(p)
          /\ ret'.status = "ok")
       => LET par == procs[p].parent_id
              id == procs[p].commentId
          IN /\ comments'[par].replies = Without(comments[par].replies, id)
             /\ comments'[par].reply_count = Len(comments'[par].replies)
             /\ comments' = [comments EXCEPT ![par] = comments'[par]]
    ]_vars

\* a deleteComment is about to save a parent whose replies did not hold the
\* deleted id and whose reply_count was not the length of its replies
C6_Witness ==
  \E p \in Procs :
    /\ procs[p].pc = "d_saveParent"
    /\ procs[p].modified = {"reply_count"}
    /\ comments[procs[p].parent_id].reply_count
         # Len(comments[procs[p].parent_id].replies)

\* C7: on a stored, non-deleted comment, updateComment and deleteComment with
\* isAdmin = false by a requester who is not the author fail with Forbidden,
\* deleteComment with isAdmin = true never does, and a call that fails with
\* Forbidden leaves every comment record unchanged.
C7_OwnerOnly ==
  /\ [](\A id \in DOMAIN comments, uid \in Users :
          ~comments[id].is_deleted =>
            /\ comments[id].user_id # uid =>
                 /\ UpdateCheck(id, uid) = "Forbidden"
                 /\ DeleteCheck(id, uid, FALSE) = "Forbidden"
            /\ DeleteCheck(id, uid, TRUE) # "Forbidden")
  /\ [][ret'.status = "Forbidden" =>
          /\ comments' = comments
          /\ ret'.op \in {"update", "delete"}
       ]_vars

\* an update or delete of a stored, non-deleted comment was answered Forbidden
C7_Witness ==
  /\ ret.status = "Forbidden"
  /\ ret.op \in {"update", "delete"}
  /\ ret.target \in DOMAIN comments
  /\ ~comments[ret.target].is_deleted

\* C8: a deleteComment that got past its checks has set is_deleted by the
\* time it completes, is_deleted never goes back to false, and every
\* deleteComment on a soft-deleted comment fails with NotFound and changes no
\* comment record (neither is_deleted nor the parent's replies/reply_count).
C8_SecondDeleteNotFound ==
  /\ [](\A id \in DOMAIN comments, uid \in Users, adm \in BOOLEAN :
          comments[id].is_deleted => DeleteCheck(id, uid, adm) = "NotFound")
  /\ [][/\ \A p \in Procs :
             (procs[p].op = "delete" /\ Ends(p))
             => comments'[procs[p].commentId].is_deleted
        /\ \A i \in DOMAIN comments :
             comments[i].is_deleted => comments'[i].is_deleted
        /\ (ret'.op = "delete" /\ ret'.status = "NotFound")
             => comments' = comments
       ]_vars

\* a deleteComment on a soft-deleted reply was answered NotFound after the
\* first one had completed
C8_Witness ==
  /\ ret.op = "delete" /\ ret.status = "NotFound"
  /\ ret.target \in DOMAIN comments
  /\ comments[ret.target].is_deleted
  /\ comments[ret.target].parent_id # NULL
  /\ \A p \in Procs : procs[p].pc = "idle"

\* C9: a reply creation that returns successfully made no call to the
\* notification collaborators if the reply's author is the parent's author,
\* and otherwise made exactly one createNotification call and one
\* notifyCommentReply call, both addressed to the parent's author; no other
\* step of any handler makes such a call.
C9_NotificationPerReply ==
  [][/\ \A p \in Procs :
          (procs[p].pc \in {"c_findCreated", "c_notify"} /\ Ends(p)
             /\ ret'.status = "ok" /\ procs[p].parent_id # NULL)
          => LET parentAuthor == comments[procs[p].parent_id].user_id
                 author == comments[procs[p].commentId].user_id
             IN IF author = parentAuthor
                THEN procs[p].pc = "c_findCreated" /\ sent' = <<>>
                ELSE /\ procs[p].pc = "c_notify"
                     /\ Len(sent') = 2
                     /\ sent'[1].call = "createNotification"
                     /\ sent'[2].call = "notifyCommentReply"
                     /\ sent'[1].to = parentAuthor
                     /\ sent'[2].to = parentAuthor
                     /\ sent'[1].reference_id = procs[p].commentId
     /\ sent' # <<>> => \E p \in Procs : procs[p].pc = "c_notify" /\ Ends(p)
    ]_vars

\* a reply to someone else's comment returned with its two calls made
C9_Witness ==
  /\ ret.op = "create" /\ ret.status = "ok" /\ ret.target # NULL
  /\ Len(sent) = 2
  /\ sent[1].to # sent[1].actor

\* C10 as stated: when persisting or delivering the reply notification
\* fails, createComment still returns its normal success response.
C10_FailureSwallowed ==
  (\E i \in DOMAIN sent : sent[i].failed) => ret.status = "ok"

\* the ids held by the sequence s
Ids(s) == {s[i] : i \in DOMAIN s}

\* C11: the step in which the reply notification fails changes no comment
\* record, and no step of a createComment sets is_deleted on a comment,
\* removes an id from any replies or lowers any reply_count: the saved reply
\* and the parent's update are not rolled back.
C11_NoRollback ==
  [][\A p \in Procs :
       /\ (procs[p].pc = "c_notify" /\ Ends(p) /\ ret'.status = "NotifyError")
          => /\ comments' = comments
             /\ procs[p].commentId \in DOMAIN comments'
             /\ comments'[procs[p].commentId].parent_id = procs[p].parent_id
       /\ (procs[p].pc \in {"c_save", "c_updateParent", "c_findCreated",
                            "c_notify"} /\ procs'[p] # procs[p])
          => \A i \in DOMAIN comments :
               /\ comments'[i].is_deleted = comments[i].is_deleted
               /\ Ids(comments[i].replies) \subseteq Ids(comments'[i].replies)
               /\ comments'[i].reply_count >= comments[i].reply_count
    ]_vars

\* a createComment ended with a failed notification call while its reply is
\* stored, not deleted, and held by its parent
C11_Witness ==
  /\ ret.op = "create" /\ ret.status = "NotifyError"
  /\ sent # <<>> /\ sent[Len(sent)].failed
  /\ LET id == sent[1].reference_id IN
       /\ ~comments[id].is_deleted
       /\ comments[id].parent_id = ret.target
       /\ id \in Ids(comments[ret.target].replies)
       /\ comments[ret.target].reply_count = Len(comments[ret.target].replies)

\* the stored comments whose parent_id is par
Children(par) == {i \in DOMAIN comments : comments[i].parent_id = par}

\* replies whose createComment has inserted them and not yet updated par
PendingPush(par) ==
  {procs[p].commentId : p \in {q \in Procs : procs[q].pc = "c_updateParent"
                                              /\ procs[q].parent_id = par}}

\* C12: as long as no deleteComment has written, under every interleaving
\* of createComment calls each parent's replies holds, once each, exactly
\* the ids of the replies created for it whose parent update has run, and
\* reply_count is their number: no push and no increment is lost.
C12_NoLostPush ==
  (\A i \in DOMAIN comments : ~comments[i].is_deleted)
  => \A par \in DOMAIN comments :
       /\ Ids(comments[par].replies) = Children(par) \ PendingPush(par)
       /\ Len(comments[par].replies) = Cardinality(Ids(comments[par].replies))
       /\ comments[par].reply_count = Cardinality(Children(par) \ PendingPush(par))

\* two createComment calls on comment 1 overlapped (the reply inserted second
\* was pushed first) and both have completed
C12_Witness ==
  /\ \A p \in Procs : procs[p].pc = "idle"
  /\ Len(comments) = 3
  /\ comments[1].replies = <<3, 2>>
  /\ comments[1].reply_count = 2
  /\ ret.op = "create" /\ ret.status = "ok"

\* C13 as stated: a createComment whose parent was soft-deleted between its
\* parent check and its parent update leaves the parent's replies and
\* reply_count unchanged.
C13_AsStated ==
  [][\A p \in Procs :
       (procs[p].pc = "c_updateParent" /\ procs'[p] # procs[p]
          /\ comments[procs[p].parent_id].is_deleted)
       => /\ comments'[procs[p].parent_id].replies
               = comments[procs[p].parent_id].replies
          /\ comments'[procs[p].parent_id].reply_count
               = comments[procs[p].parent_id].reply_count
    ]_vars

\* C15: no step removes a comment record (every id stays, the collection
\* never shrinks), and a comment whose is_deleted is true has is_deleted
\* true after every step.
C15_RecordsKept ==
  [][/\ Len(comments') >= Len(comments)
     /\ \A i \in DOMAIN comments :
          /\ i \in DOMAIN comments'
          /\ comments[i].is_deleted => comments'[i].is_deleted
    ]_vars

\* an updateComment that passed its checks before the comment was
\* soft-deleted has written and completed, and the comment is still deleted
C15_Witness ==
  /\ ret.op = "update" /\ ret.status = "ok"
  /\ ret.target \in DOMAIN comments
  /\ comments[ret.target].is_deleted

\* C16: every step leaves product_id, user_id and parent_id of every stored
\* comment as they were.
C16_IdentityFieldsFrozen ==
  [][\A i \in DOMAIN comments :
       /\ comments'[i].product_id = comments[i].product_id
       /\ comments'[i].user_id = comments[i].user_id
       /\ comments'[i].parent_id = comments[i].parent_id
    ]_vars

\* a deleteComment of a reply has completed and the reply still names its
\* parent
C16_Witness ==
  /\ ret.op = "delete" /\ ret.status = "ok"
  /\ ret.target \in DOMAIN comments
  /\ comments[ret.target].is_deleted
  /\ comments[ret.target].parent_id # NULL

\* C17: the step in which a createComment without parent_id stores its
\* record appends one record with parent_id = null, reply_count = 0,
\* replies = [] and is_deleted = false and changes no other record, and a
\* createComment without parent_id that returns has stored such a record.
C17_TopLevelDefaults ==
  [][/\ \A p \in Procs :
          (procs'[p].pc = "c_findCreated" /\ procs[p].pc # "c_findCreated"
             /\ procs'[p].parent_id = NULL)
          => LET id == procs'[p].commentId IN
               /\ id = Len(comments) + 1
               /\ DOMAIN comments' = 1..id
               /\ \A i \in DOMAIN comments : comments'[i] = comments[i]
               /\ comments'[id].parent_id = NULL
               /\ comments'[id].reply_count = 0
               /\ comments'[id].replies = <<>>
               /\ comments'[id].is_deleted = FALSE
     /\ (ret'.op = "create" /\ ret'.status = "ok" /\ ret'.target = NULL)
          => \E p \in Procs :
               /\ procs[p].pc = "c_findCreated" /\ procs[p].parent_id = NULL
               /\ Ends(p)
               /\ comments' = comments
               /\ comments[procs[p].commentId].parent_id = NULL
    ]_vars

\* a createComment without parent_id has returned the comment it stored
C17_Witness ==
  /\ ret.op = "create" /\ ret.status = "ok" /\ ret.target = NULL
  /\ \E i \in DOMAIN comments :
       /\ comments[i].parent_id = NULL /\ comments[i].replies = <<>>
       /\ comments[i].reply_count = 0 /\ ~comments[i].is_deleted

\* s without its last element
Front(s) == SubSeq(s, 1, Len(s) - 1)

\* C20: with requests served one at a time, the parent update of a reply
\* creation appends the new id to C's replies and adds 1 to C's reply_count,
\* and a successful deleteComment of the reply pushed last removes exactly
\* that id and takes 1 off reply_count: create then delete gives back the
\* replies and reply_count C had before.
C20_CreateDeleteRoundTrip ==
  [][\A p \in Procs :
       /\ (procs[p].pc = "c_updateParent" /\ procs'[p] # procs[p])
          => LET par == procs[p].parent_id IN
               /\ comments'[par].replies
                    = Append(comments[par].replies, procs[p].commentId)
               /\ Front(comments'[par].replies) = comments[par].replies
               /\ comments'[par].reply_count - 1 = comments[par].reply_count
       /\ (procs[p].op = "delete" /\ Ends(p) /\ ret'.status = "ok"
             /\ procs[p].parent_id # NULL
             /\ comments[procs[p].parent_id].replies # <<>>
             /\ comments[procs[p].parent_id].replies[
                  Len(comments[procs[p].parent_id].replies)] = procs[p].commentId)
          => LET par == procs[p].parent_id IN
               /\ comments'[par].replies = Front(comments[par].replies)
               /\ comments'[par].reply_count = comments[par].reply_count - 1
    ]_vars

\* the reply created by the first request has been deleted by the second and
\* comment 1 has the replies and reply_count it started with
C20_Witness ==
  /\ ncalls = 2
  /\ ret.op = "delete" /\ ret.status = "ok"
  /\ ret.target = Len(comments) /\ ret.target = 3
  /\ comments[3].parent_id = 1
  /\ comments[1].replies = <<2>> /\ comments[1].reply_count = 1

\* C18 as stated: whenever no request is in flight, every comment's
\* reply_count is >= 0 and is the number of non-deleted comments whose
\* parent_id is that comment.
C18_AsStated ==
  (\A p \in Procs : procs[p].pc = "idle")
  => \A i \in DOMAIN comments :
       /\ comments[i].reply_count >= 0
       /\ comments[i].reply_count
            = Cardinality({j \in DOMAIN comments :
                             comments[j].parent_id = i /\ ~comments[j].is_deleted})

\* the handlers that list comments page by page
Listings == {"getCommentsByProduct", "getCommentsByUser", "getReplies",
             "getAllCommentsAdmin"}

\* the comments a read result shows: listed, populated as a parent summary,
\* or counted
Shown(body) == Ids(body.items) \cup body.parents \cup body.counted

\* C14 as stated: no read returns a soft-deleted comment, neither as an
\* item, nor as a direct lookup, nor as the populated parent summary of
\* another comment, nor in a count: every comment a query shows is
\* non-deleted in the state the query ran in.
C14_AsStated ==
  [][\A p \in Procs :
       /\ (procs[p].pc = "idle" /\ procs'[p].pc = "l_second"
             /\ procs'[p].rd.first = "find")
          => \A i \in Shown(procs'[p].rd.body) : ~comments[i].is_deleted
       /\ (procs[p].pc = "l_second" /\ Ends(p) /\ procs[p].rd.first = "count")
          => \A i \in Shown(ret'.body) : ~comments[i].is_deleted
       /\ (procs[p].pc = "idle" /\ procs'[p].pc = "idle" /\ ret' # ret
             /\ ret'.op \in {"getCommentById", "getCommentsByProductAdmin",
                             "getProductsWithCommentsByCategory"}
             /\ ret'.status = "ok")
          => \A i \in Shown(ret'.body) : ~comments[i].is_deleted
    ]_vars

\* C19 as stated: the total a listing returns is the number of comments
\* that matched its filter in the state its page was read from.
C19_AsStated ==
  (ret.op \in Listings /\ ret.status = "ok")
  => ret.body.total = ret.body.nmatch

\* the step of worker p is the save() of an updateComment
Saves(p) == procs[p].pc = "u_save" /\ procs'[p].pc = "u_read"

\* C21 as stated: the save() of an updateComment given non-empty content
\* makes the comment's content that value.
C21_AsStated ==
  [][\A p \in Procs :
       Saves(p) => comments'[procs[p].commentId].content = procs[p].content
    ]_vars

\* C21 amended: the save() of an updateComment given non-empty content makes
\* the comment's content that value with its leading and trailing
\* whitespace removed and changes no other field and no other comment; an
\* updateComment given no content, or whose content is nothing but
\* whitespace (rejected by validation), writes nothing; no other step of an
\* updateComment writes.
C21_UpdateWritesTrimmedContent ==
  [][\A p \in Procs :
       /\ Saves(p)
          => /\ procs[p].content # <<>>
             /\ comments' = [comments EXCEPT ![procs[p].commentId].content =
                                               Trim(procs[p].content)]
             /\ Trim(procs[p].content) # <<>>
       /\ (procs[p].pc = "u_read" /\ procs'[p] # procs[p]) => comments' = comments
       /\ (procs[p].pc = "idle" /\ procs'[p] # procs[p]
             /\ procs'[p].op = "update") => comments' = comments
       /\ (procs[p].pc = "idle" /\ ret'.op = "update" /\ ret' # ret)
          => comments' = comments
    ]_vars

\* an updateComment given "b " has completed and the comment's content is "b"
C21_Witness ==
  /\ ret.op = "update" /\ ret.status = "ok"
  /\ ret.target \in DOMAIN comments
  /\ comments[ret.target].content = <<"b">>

\* worker p's step ends a getCommentsByProduct that returns
ListedByProduct(p) ==
  /\ procs[p].pc = "l_second" /\ Ends(p)
  /\ procs[p].rd.q.kind = "getCommentsByProduct"
  /\ ret'.status = "ok"

\* C22 as stated: a getCommentsByProduct given a parent_id returns (on a
\* first page that holds them all) exactly the non-deleted comments whose
\* parent_id is the given id.
C22_AsStated ==
  [][\A p \in Procs :
       (ListedByProduct(p) /\ procs[p].rd.q.parent_id # NULL
          /\ procs[p].rd.page = 1 /\ procs[p].rd.limit > Len(comments))
       => Ids(ret'.body.items)
            = {i \in DOMAIN comments :
                 /\ comments[i].parent_id = procs[p].rd.q.parent_id
                 /\ ~comments[i].is_deleted}
    ]_vars

\* C22 amended: getCommentsByProduct returns exactly the non-deleted comments
\* of the given product whose parent_id is null (parent_id omitted) or is the
\* given id (parent_id given): the page holds only such comments, newest
\* first, and a first page large enough holds them all.
C22_ListByProductExact ==
  [][\A p \in Procs :
       ListedByProduct(p)
       => LET q == procs[p].rd.q
              items == ret'.body.items
              expected == {i \in DOMAIN comments :
                             /\ comments[i].product_id = q.product_id
                             /\ comments[i].parent_id = q.parent_id
                             /\ ~comments[i].is_deleted}
          IN /\ Ids(items) \subseteq expected
             /\ \A k \in 1..(Len(items) - 1) : items[k] > items[k + 1]
             /\ Len(items) <= procs[p].rd.limit
             /\ (procs[p].rd.page = 1 /\ procs[p].rd.limit >= Cardinality(expected))
                  => Ids(items) = expected
    ]_vars

\* a getCommentsByProduct given a parent_id has returned a page of one reply,
\* a non-deleted reply stored under its parent's product
C22_Witness ==
  /\ ret.op = "getCommentsByProduct" /\ ret.status = "ok"
  /\ Len(ret.body.items) = 1
  /\ LET c == comments[ret.body.items[1]] IN
       /\ c.parent_id # NULL /\ ~c.is_deleted
       /\ c.product_id = comments[c.parent_id].product_id

\* what C23 states of an adminReplyComment on target id that ends with
\* status st in a step from comments to comments'
AdminReplyFails(id, st) ==
  /\ st # "ok"
  /\ comments' = comments
  /\ (IsValidObjectId(id) /\ (id \notin DOMAIN comments \/ comments[id].is_deleted))
       => st = "NotFound"
  /\ (id \in DOMAIN comments /\ ~comments[id].is_deleted
        /\ comments[id].parent_id # NULL)
       => st = "BadRequest"

\* C23 as stated: adminReplyComment(commentId, adminId, content) forwards
\* createComment(adminId, {product_id: the target's product_id, content,
\* parent_id: commentId}); it fails with NotFound when the target is missing
\* or soft-deleted and with BadRequest when the target is itself a reply, and
\* writes nothing when it fails.
C23_AsStated ==
  [][/\ (ncalls' # ncalls /\ ret'.op = "adminReply")
          => AdminReplyFails(ret'.target, ret'.status)
     /\ \A p \in Procs :
          /\ (procs[p].pc = "a_create" /\ Ends(p))
               => AdminReplyFails(procs[p].parent_id, ret'.status)
          /\ (procs[p].pc = "a_create" /\ ~Ends(p) /\ procs'[p] # procs[p])
               => /\ procs'[p].pc = "c_save"
                  /\ procs'[p].parent_id = procs[p].parent_id
                  /\ procs'[p].product_id = comments[procs[p].parent_id].product_id
                  /\ comments' = comments
    ]_vars

\* C24 as stated: of two concurrent deleteComment calls on the same comment
\* at most one succeeds: the call that reaches its write after the other
\* has soft-deleted the comment returns NotFound and writes nothing, and the
\* parent's replies are rewritten only by a call that finds the id in them.
C24_AsStated ==
  [][\A p \in Procs :
       /\ (procs[p].pc = "d_save" /\ procs'[p] # procs[p]
             /\ comments[procs[p].commentId].is_deleted)
            => /\ procs'[p].pc = "idle"
               /\ ret' = [op |-> "delete", target |-> procs[p].commentId,
                          status |-> "NotFound"]
               /\ comments' = comments
       /\ (procs[p].pc = "d_saveParent" /\ procs'[p] # procs[p]
             /\ comments'[procs[p].parent_id].replies
                  # comments[procs[p].parent_id].replies)
            => \E k \in DOMAIN comments[procs[p].parent_id].replies :
                 comments[procs[p].parent_id].replies[k] = procs[p].commentId
    ]_vars

\* C25 as stated: the read-filter-save of the parent in deleteComment loses
\* no concurrent update: its save succeeds and leaves the parent with the
\* replies it has at that moment minus the deleted reply (a reply pushed or
\* a sibling removed since the read is kept), and reply_count is their number.
C25_AsStated ==
  [][\A p \in Procs :
       (procs[p].pc = "d_saveParent" /\ procs'[p] # procs[p])
       => LET par == procs[p].parent_id
              kept == Without(comments[par].replies, procs[p].commentId)
          IN /\ ret'.status = "ok"
             /\ comments'[par].replies = kept
             /\ comments'[par].reply_count = Len(kept)
    ]_vars

\* C26 as stated: the content of a comment does not change once its
\* is_deleted is true, and an updateComment that completes on a soft-deleted
\* comment does not return it as a successful result.
C26_AsStated ==
  [][/\ \A i \in DOMAIN comments :
          comments[i].is_deleted => comments'[i].content = comments[i].content
     /\ \A p \in Procs :
          (procs[p].op = "update" /\ Ends(p) /\ ret'.status = "ok")
          => ~comments[procs[p].commentId].is_deleted
    ]_vars

\* C27 as stated: every reply has the same product_id as its parent comment.
C27_AsStated ==
  \A i \in DOMAIN comments :
    (comments[i].parent_id # NULL /\ comments[i].parent_id \in DOMAIN comments)
    => comments[i].product_id = comments[comments[i].parent_id].product_id

\* the page a find returns in this step to worker p's listing of kind k,
\* when it is a first page that holds every match
FirstPageOf(p, k, items) ==
  \/ /\ procs[p].pc = "idle" /\ procs'[p].pc = "l_second"
     /\ procs'[p].rd.q.kind = k /\ procs'[p].rd.first = "find"
     /\ procs'[p].rd.page = 1 /\ procs'[p].rd.limit > Len(comments)
     /\ items = procs'[p].rd.body.items
  \/ /\ procs[p].pc = "l_second" /\ Ends(p)
     /\ procs[p].rd.q.kind = k /\ procs[p].rd.first = "count"
     /\ procs[p].rd.page = 1 /\ procs[p].rd.limit > Len(comments)
     /\ items = ret'.body.items

\* the non-deleted replies of soft-deleted top-level comments
OrphanedReplies ==
  {j \in DOMAIN comments :
     /\ ~comments[j].is_deleted
     /\ comments[j].parent_id \in DOMAIN comments
     /\ comments[comments[j].parent_id].is_deleted
     /\ comments[comments[j].parent_id].parent_id = NULL}

\* C28: a deleteComment of a top-level comment returns success from the save
\* that sets the comment's is_deleted, and that save changes nothing else:
\* the comment's replies and reply_count and every other record, its replies
\* included, are as before; the non-deleted replies of a soft-deleted
\* top-level comment are returned by getReplies of that comment and by
\* getCommentsByUser of their author.
C28_TopLevelDeleteFrame ==
  [][\A p \in Procs :
       /\ (procs[p].pc = "d_save" /\ procs'[p] # procs[p]
             /\ comments[procs[p].commentId].parent_id = NULL)
            => /\ comments' = [comments EXCEPT ![procs[p].commentId].is_deleted = TRUE]
               /\ procs'[p].pc = "idle"
               /\ ret' = [op |-> "delete", target |-> procs[p].commentId,
                          status |-> "ok"]
       /\ (procs[p].pc = "idle" /\ procs'[p].pc = "d_save") => comments' = comments
       /\ \A items \in {procs'[p].rd.body.items, IF "body" \in DOMAIN ret' THEN ret'.body.items ELSE <<>>} :
            /\ FirstPageOf(p, "getReplies", items)
                 => \A j \in OrphanedReplies :
                      comments[j].parent_id
                          = (IF procs[p].pc = "idle" THEN procs'[p] ELSE procs[p]).rd.q.commentId
                        => j \in Ids(items)
            /\ FirstPageOf(p, "getCommentsByUser", items)
                 => \A j \in OrphanedReplies :
                      comments[j].user_id
                          = (IF procs[p].pc = "idle" THEN procs'[p] ELSE procs[p]).rd.q.user_id
                        => j \in Ids(items)
    ]_vars

\* getReplies of a soft-deleted top-level comment has returned its
\* non-deleted reply
C28_Witness ==
  /\ ret.op = "getReplies" /\ ret.status = "ok"
  /\ ret.target \in DOMAIN comments
  /\ comments[ret.target].is_deleted /\ comments[ret.target].parent_id = NULL
  /\ comments[ret.target].replies # <<>>
  /\ Len(ret.body.items) = 1
  /\ comments[ret.body.items[1]].parent_id = ret.target
  /\ ~comments[ret.body.items[1]].is_deleted

\* C29 as stated: every non-deleted category with a non-null parent_id
\* references an existing category that is not soft-deleted.
C29_AsStated ==
  \A i \in DOMAIN categories :
    (~categories[i].is_deleted /\ categories[i].parent_id # NULL)
    => /\ categories[i].parent_id \in DOMAIN categories
       /\ ~categories[categories[i].parent_id].is_deleted

\* following parent_id from category i reaches a root in at most n steps
RECURSIVE ReachesRoot(_, _)
ReachesRoot(i, n) ==
  IF categories[i].parent_id = NULL THEN TRUE
  ELSE IF n = 0 \/ categories[i].parent_id \notin DOMAIN categories THEN FALSE
  ELSE ReachesRoot(categories[i].parent_id, n - 1)

\* C30 as stated: following parent_id links from any category reaches a
\* root: the parent relation has no cycle.
C30_AsStated ==
  \A i \in DOMAIN categories : ReachesRoot(i, Len(categories))

====
